---- MODULE Spec2Model ----
(***************************************************************************)
(* Road-geometry acquisition pipeline of Road Explorer Portugal            *)
(* (scripts/osm_utils.py, validation.py, process_roads.py) as documented   *)
(* in the repository: Quality Validator, Relation/Segment Resolver and     *)
(* the tiered Pipeline Orchestrator.                                       *)
(*                                                                         *)
(* Coordinates live on a small integer grid; GridPerKm grid steps make one *)
(* kilometre, so point density (points per km) compares as                 *)
(*     density >= k   <=>   points * GridPerKm >= k * distance.            *)
(* The geodesic distance between two grid points is their Manhattan        *)
(* distance in grid steps.                                                 *)
(***************************************************************************)
EXTENDS Integers, Sequences, FiniteSets, TLC

\* ------------------------------------------------------------------ bounds
MaxLon == 4
MaxLat == 1
MaxLen == 3
GridPerKm == 2

\* ------------------------------------------------- program constants
MinDensityCritical == 1
MinDensityGood == 2

\* ---------------------------------------------------------- data model
\* Coordinate: (longitude, latitude)
Coordinates == (0..MaxLon) \X (0..MaxLat)

Lon(p) == p[1]
Lat(p) == p[2]

\* BoundingBox: (south, west, north, east); the easternmost grid column lies
\* outside the target territory.
Bbox == [south |-> 0, west |-> 0, north |-> MaxLat, east |-> MaxLon - 1]

Abs(x) == IF x < 0 THEN -x ELSE x

SeqsUpTo(S, n) == UNION {[1..k -> S] : k \in 0..n}

Range(s) == {s[i] : i \in DOMAIN s}

\* ------------------------------------------------------ metrics: distance
SegmentDistance(p, q) == Abs(Lon(p) - Lon(q)) + Abs(Lat(p) - Lat(q))

RECURSIVE calculate_total_distance(_)
calculate_total_distance(coords) ==
    IF Len(coords) < 2 THEN 0
    ELSE SegmentDistance(coords[1], coords[2]) + calculate_total_distance(Tail(coords))

\* ------------------------------------------------------ Quality Validator
InBbox(p, bbox) ==
    /\ bbox.south <= Lat(p) /\ Lat(p) <= bbox.north
    /\ bbox.west <= Lon(p) /\ Lon(p) <= bbox.east

CountOutOfBounds(coords, bbox) ==
    Cardinality({i \in DOMAIN coords : ~InBbox(coords[i], bbox)})

validate_first_point_only(coords, bbox) == Len(coords) = 0 \/ InBbox(coords[1], bbox)

validate_all_points_in_portugal(coords, bbox) ==
    \A i \in DOMAIN coords : InBbox(coords[i], bbox)

DensityVerdictInclusive(points, dist) ==
    IF points * GridPerKm <= MinDensityCritical * dist THEN "hard_fail"
    ELSE IF points * GridPerKm <= MinDensityGood * dist THEN "soft_fail"
    ELSE "pass"

\* Density < 1.0 points/km -> CRITICAL; < 2.0 -> POOR QUALITY; otherwise accepted.
DensityVerdict(points, dist) ==
    IF points * GridPerKm < MinDensityCritical * dist THEN "hard_fail"
    ELSE IF points * GridPerKm < MinDensityGood * dist THEN "soft_fail"
    ELSE "pass"

\* validate(candidate, bbox) -> QualityReport
validate(coords, bbox) ==
    LET dist == calculate_total_distance(coords)
        oob  == ~validate_all_points_in_portugal(coords, bbox)
    IN  [points    |-> Len(coords),
         distance  |-> dist,
         violations |-> CountOutOfBounds(coords, bbox),
         verdict   |-> IF oob THEN "out_of_bounds"
                       ELSE DensityVerdict(Len(coords), dist)]

Verdicts == {"pass", "soft_fail", "hard_fail", "out_of_bounds"}

\* GeometryCandidate inputs of the validator: >= 2 coordinates over a positive
\* measured distance (density is points / distance).
Candidates ==
    {c \in SeqsUpTo(Coordinates, MaxLen) : Len(c) >= 2 /\ calculate_total_distance(c) > 0}

NoReport == [points |-> 0, distance |-> 0, violations |-> 0, verdict |-> "none"]

\* ------------------------------------------- Relation/Segment Resolver
\* A response is a sequence of route objects (OSM relations); a route object
\* is a sequence of fragments (member ways); a fragment is a sequence of
\* coordinates.
MaxObjects == 2
MaxFragments == 2

\* Way fragments the line-geometry service may return: two that chain (in the
\* given order, or the first repeated and so reversed), and one far outside
\* the territory that touches neither.
FragmentPool ==
    { << <<0, 0>>, <<1, 0>> >>,
      << <<1, 0>>, <<2, 0>> >>,
      << <<MaxLon, 0>>, <<MaxLon, MaxLat>> >> }

RouteObjects == {o \in SeqsUpTo(FragmentPool, MaxFragments) : Len(o) >= 1}

Responses == SeqsUpTo(RouteObjects, MaxObjects)

RECURSIVE Flatten(_)
Flatten(segments) ==
    IF segments = <<>> THEN <<>> ELSE Head(segments) \o Flatten(Tail(segments))

Reverse(s) == [i \in 1..Len(s) |-> s[Len(s) + 1 - i]]

RemoveAt(s, i) == SubSeq(s, 1, i - 1) \o SubSeq(s, i + 1, Len(s))

\* Number of a relation's constituent points that fall inside bbox.
count_members_within_bbox(relation, bbox) ==
    LET pts == Flatten(relation)
    IN  Cardinality({i \in DOMAIN pts : InBbox(pts[i], bbox)})

\* for relation in relations: if valid_members > best_member_count: ...
\* (best_relation = None, best_member_count = 0 before the loop); 0 is None.
RECURSIVE BestRelationFrom(_, _, _, _, _)
BestRelationFrom(relations, bbox, i, best_relation, best_member_count) ==
    IF i > Len(relations) THEN best_relation
    ELSE LET valid_members == count_members_within_bbox(relations[i], bbox)
         IN  IF valid_members > best_member_count
             THEN BestRelationFrom(relations, bbox, i + 1, i, valid_members)
             ELSE BestRelationFrom(relations, bbox, i + 1, best_relation, best_member_count)

FirstMatchWins(relations, bbox) == IF Len(relations) = 0 THEN 0 ELSE 1

BestRelation(relations, bbox) == BestRelationFrom(relations, bbox, 1, 0, 0)

NoBbox == [south |-> 0, west |-> 0, north |-> -1, east |-> -1]

\* extract_coordinates_from_response(data, bbox): the indexes of the relations
\* whose member ways are extracted. The bbox selection runs only when the
\* response holds more than one relation and a bbox was passed.
extract_coordinates_from_response(relations, bbox) ==
    IF Len(relations) > 1 /\ bbox # NoBbox
    THEN LET best == BestRelation(relations, bbox)
         IN  IF best = 0 THEN <<>> ELSE <<best>>
    ELSE [i \in 1..Len(relations) |-> i]

SegmentsOf(relations, selected) ==
    Flatten([k \in 1..Len(selected) |-> relations[selected[k]]])

\* First remaining segment that continues the merged line: (index, reversed),
\* <<0, FALSE>> when none connects.
NextConnected(merged, remaining) ==
    LET last == merged[Len(merged)]
        fits == {i \in DOMAIN remaining :
                    remaining[i][1] = last \/ remaining[i][Len(remaining[i])] = last}
    IN  IF fits = {} THEN <<0, FALSE>>
        ELSE LET i == CHOOSE j \in fits : \A k \in fits : j <= k
             IN  <<i, remaining[i][1] # last>>

\* if not connected: for segment in remaining: merged.extend(segment)
ExtendRemaining(merged, remaining) == merged \o Flatten(remaining)

\* merge_way_segments(segments) -> merged coordinates and the number of
\* segments that could not be connected.
RECURSIVE MergeFrom(_, _)
MergeFrom(merged, remaining) ==
    IF remaining = <<>> THEN [coords |-> merged, disconnected |-> 0]
    ELSE LET nc == NextConnected(merged, remaining)
         IN  IF nc[1] = 0
             THEN [coords |-> ExtendRemaining(merged, remaining),
                   disconnected |-> Len(remaining)]
             ELSE LET seg == IF nc[2] THEN Reverse(remaining[nc[1]]) ELSE remaining[nc[1]]
                  IN  MergeFrom(merged \o Tail(seg), RemoveAt(remaining, nc[1]))

merge_way_segments(segments) ==
    IF segments = <<>> THEN [coords |-> <<>>, disconnected |-> 0]
    ELSE MergeFrom(Head(segments), Tail(segments))

NoMatch == [kind |-> "NoMatch", coords |-> <<>>, disconnected |-> 0, selected |-> <<>>]

\* resolve(raw_response, bbox): relation selection, then segment merge.
resolve(relations, bbox) ==
    LET selected == extract_coordinates_from_response(relations, bbox)
        merged   == merge_way_segments(SegmentsOf(relations, selected))
    IN  IF merged.coords = <<>> THEN NoMatch
        ELSE [kind |-> "geometry", coords |-> merged.coords,
              disconnected |-> merged.disconnected, selected |-> selected]

NoResult == [kind |-> "none", coords |-> <<>>, disconnected |-> 0, selected |-> <<>>]

\* ------------------------------------------------------ Coordinate Cache
\* The store maps a road to its cache file: NoEntry, or the saved coordinates
\* with the time of saving (in ticks of DaysPerTick days) and whether the file
\* still parses.
MaxTicks == 4
DaysPerTick == 10
CACHE_EXPIRY_DAYS == 30

NoEntry == [coords |-> <<>>, saved |-> -1, corrupt |-> FALSE]

put_in_place(st, road_id, coords, now) ==
    [st EXCEPT ![road_id].coords = @ \o coords]

CacheExpiredInclusive(age_days) == age_days >= CACHE_EXPIRY_DAYS

\* If cache >30 days old, re-fetch.
CacheExpired(age_days) == age_days > CACHE_EXPIRY_DAYS

\* get(road_id): the stored coordinates, or absent (the empty sequence) for a
\* missing, expired or invalid cache file.
get(st, road_id, now) ==
    LET e == st[road_id]
    IN  IF e = NoEntry THEN <<>>
        ELSE IF e.corrupt THEN <<>>
        ELSE IF CacheExpired((now - e.saved) * DaysPerTick) THEN <<>>
        ELSE e.coords

\* put(road_id, coords): save after successful fetch, replacing the file.
put(st, road_id, coords, now) ==
    [st EXCEPT ![road_id] = [coords |-> coords, saved |-> now, corrupt |-> FALSE]]

\* Geometries saved by earlier runs.
GeometryPool ==
    { << <<0, 0>>, <<1, 0>> >>, << <<0, 0>>, <<1, 0>>, <<2, 0>> >> }

NoRead == [road |-> "none", result |-> <<>>, at |-> -1]

\* --------------------------------------------------- Pipeline Orchestrator
\* Tiered acquisition per road: cache -> direct query -> segmentation ->
\* waypoint routing, each result gated by the Quality Validator.
BatchLen == 2
MaxQueries == 2
MaxRetries == 1
MaxPairs == 2
NUM_SEGMENTS == 4

Roads == {"N2", "N222"}

Batches == [1..BatchLen -> Roads]

TierOrderNoWaypoint == <<"cache", "query", "segment">>

\* 1. check cache  2. query OSM  3. automatic segmentation  4. waypoints +
\* directions
TierOrder == <<"cache", "query", "segment", "waypoint">>

TierIndex(t) == CHOOSE k \in DOMAIN TierOrder : TierOrder[k] = t

NextTierNoSkip(t, cause) ==
    LET k == TierIndex(t)
    IN  IF k + 1 > Len(TierOrder) THEN "none" ELSE TierOrder[k + 1]

NextTierRequery(t, cause) ==
    CASE t = "cache" -> "query"
      [] t = "query" -> IF cause \in {"timeout", "fragmented"} THEN "segment" ELSE "waypoint"
      [] t = "segment" -> "query"
      [] OTHER -> "none"

\* Segmentation is entered only after a direct query timed out or was flagged
\* fragmented; any other failure of a tier passes on to the tier after it.
\* "none": the tiers are exhausted.
NextTier(t, cause) ==
    LET k == TierIndex(t)
        n == IF k < Len(TierOrder) /\ TierOrder[k + 1] = "segment"
                  /\ cause \notin {"timeout", "fragmented"}
             THEN k + 2 ELSE k + 1
    IN  IF n > Len(TierOrder) THEN "none" ELSE TierOrder[n]

QualityGateAcceptsPoor(verdict) == verdict \in {"pass", "soft_fail"}

\* Geometry rejected if density < 1.0, density < 2.0 or any point outside.
QualityGate(verdict) == verdict = "pass"

CacheAfterFetch(verdict) == TRUE

\* Coordinates are validated before they are cached.
ShouldCache(verdict) == verdict = "pass"

OnRejectionAlwaysEscalate(verdict) == "escalate"

\* A hard density failure abandons the road; a soft density failure or an
\* out-of-bounds candidate escalates to the next strategy.
OnRejection(verdict) == IF verdict = "hard_fail" THEN "abandon" ELSE "escalate"

FetchErrors == {"RateLimited", "GatewayTimeout", "NetworkError", "Malformed"}

RetryNotCounted(n) == n

\* Retries are bounded: each one is counted against MaxRetries.
CountRetry(n) == n + 1

RetryableAll(kind) == TRUE

\* RateLimited and GatewayTimeout may be retried; other errors are terminal
\* for the query candidate.
Retryable(kind) == kind \in {"RateLimited", "GatewayTimeout"}

\* Responses of the line-geometry service to a direct query.
FetchPool ==
    { <<>>,
      << << << <<0, 0>>, <<1, 0>> >>, << <<1, 0>>, <<2, 0>> >> >> >>,
      << << << <<MaxLon, 0>>, <<MaxLon, MaxLat>> >> >>, << << <<0, 0>>, <<1, 0>> >> >> >>,
      << << << <<MaxLon, 0>>, <<MaxLon, MaxLat>> >> >> >>,
      << << << <<0, 0>>, <<1, 0>> >>, << <<MaxLon, 0>>, <<MaxLon, MaxLat>> >> >> >>,
      << << << <<0, 0>>, <<3, 0>> >> >> >>,
      << << << <<0, 0>>, <<3, 1>>, <<0, 0>> >> >> >> }

SegmentationIgnoresFailed(failed, disconnected) == disconnected = 0

\* The segmented run is a full success only if no sub-region failed and the
\* pieces chain into one line.
SegmentationComplete(failed, disconnected) == failed = 0 /\ disconnected = 0

\* fetch_single_segment: the part of the road inside sub-region i.
SegmentPiece(i) ==
    IF i < NUM_SEGMENTS THEN << <<i - 1, 0>>, <<i, 0>> >>
    ELSE << <<i - 1, 0>>, <<i - 1, 1>> >>

\* merge_way_segments(all_coords) for every all_coords the sub-region fetches
\* can leave behind.
MergedSegments ==
    {<<all_coords, merge_way_segments(all_coords)>> :
        all_coords \in SeqsUpTo({SegmentPiece(i) : i \in 1..NUM_SEGMENTS}, NUM_SEGMENTS)}

MergeSegments(all_coords) ==
    (CHOOSE m \in MergedSegments : m[1] = all_coords)[2]

\* Curated waypoints alternate between the two ends of the territory.
Waypoint(k) == IF k % 2 = 1 THEN <<0, 0>> ELSE <<3, 0>>

\* Routed paths the directions service may return between waypoints k, k+1:
\* a detailed one, a two-point one, and a detour outside the territory.
SubRoutes(k) ==
    LET a == Waypoint(k)
        b == Waypoint(k + 1)
        detailed == IF Lon(a) < Lon(b)
                    THEN [i \in 1..4 |-> <<i - 1, 0>>]
                    ELSE [i \in 1..4 |-> <<4 - i, 0>>]
    IN  {detailed, <<a, b>>, <<a, <<MaxLon, 0>>, b>>}

SubRouteUnchecked(sub) == TRUE

\* Each section's route is validated (density, distance, bounds) before the
\* sections are merged.
SubRouteAccepted(sub) == QualityGate(validate(sub, Bbox).verdict)

NoGeometry == <<>>

\* Rate limiting: 1-second delay between requests.
MIN_DELAY_S == 1

MayRequestAnyTime(in_flight, since_last) == TRUE

\* A request is issued when none is in flight and the delay since the
\* previous one has elapsed.
MayRequest(in_flight, since_last) == in_flight = 0 /\ since_last >= MIN_DELAY_S

\* Cache directory at the start of a run: empty, or holding for one road a
\* validated geometry that an earlier run saved more than 30 days ago.
InitialCaches ==
    { [r \in Roads |-> NoEntry],
      [r \in Roads |-> IF r = "N2"
                        THEN [coords |-> << <<0, 0>>, <<1, 0>> >>,
                              saved |-> -MaxTicks, corrupt |-> FALSE]
                        ELSE NoEntry] }

\* ------------------------------------------------------- curve analysis
\* Longest path, in segments, of the enumerated inputs.
MaxMoves == 4

MIN_CURVE_ANGLE == 20

\* The synthetic winding road has 9 GPS points.
WindingPoints == 9

\* Steps between consecutive points, as <<dlon, dlat>>, with the forward
\* azimuth of each in whole degrees; a repeated point has atan2(0, 0) = 0.
BearingTable ==
    [m \in { <<0, 0>>, <<0, 1>>, <<1, 4>>, <<1, 2>>, <<2, 3>>, <<1, 1>>, <<2, 1>>,
             <<1, 0>>, <<0, -1>>, <<-1, 1>> } |->
        CASE m = <<0, 0>> -> 0
          [] m = <<0, 1>> -> 0
          [] m = <<1, 4>> -> 14
          [] m = <<2, 3>> -> 34
          [] m = <<1, 2>> -> 27
          [] m = <<1, 1>> -> 45
          [] m = <<2, 1>> -> 63
          [] m = <<1, 0>> -> 90
          [] m = <<0, -1>> -> 180
          [] m = <<-1, 1>> -> 315]

Moves == DOMAIN BearingTable

calculate_bearing(point1, point2) ==
    BearingTable[<<Lon(point2) - Lon(point1), Lat(point2) - Lat(point1)>>]

calculate_angle_difference(bearing1, bearing2) ==
    LET diff == Abs(bearing2 - bearing1)
    IN  IF diff > 180 THEN 360 - diff ELSE diff

Bearings(coordinates) ==
    [i \in 1..(Len(coordinates) - 1) |->
        calculate_bearing(coordinates[i], coordinates[i + 1])]

CurveClassInclusive(angle_change) ==
    IF angle_change <= 45 THEN "gentle"
    ELSE IF angle_change <= 90 THEN "moderate"
    ELSE "sharp"

\* Gentle: 20 <= angle < 45; moderate: 45 <= angle < 90; sharp: angle >= 90.
CurveClass(angle_change) ==
    IF angle_change < 45 THEN "gentle"
    ELSE IF angle_change < 90 THEN "moderate"
    ELSE "sharp"

LastStraightDropped(straights, current_straight_distance) == straights

\* The straight still open after the last direction change is appended.
LastStraight(straights, current_straight_distance) ==
    IF current_straight_distance > 0
    THEN Append(straights, current_straight_distance)
    ELSE straights

RECURSIVE AnalyzeFrom(_, _, _, _, _)
AnalyzeFrom(coordinates, bearings, min_curve_angle, i, acc) ==
    IF i > Len(bearings) - 1 THEN acc
    ELSE LET angle_change == calculate_angle_difference(bearings[i], bearings[i + 1])
             class == CurveClass(angle_change)
             next ==
               IF angle_change >= min_curve_angle
               THEN [curves_gentle |-> acc.curves_gentle + (IF class = "gentle" THEN 1 ELSE 0),
                     curves_moderate |-> acc.curves_moderate + (IF class = "moderate" THEN 1 ELSE 0),
                     curves_sharp |-> acc.curves_sharp + (IF class = "sharp" THEN 1 ELSE 0),
                     straights |-> IF acc.current_straight_distance > 0
                                   THEN Append(acc.straights, acc.current_straight_distance)
                                   ELSE acc.straights,
                     current_straight_distance |-> 0]
               ELSE [acc EXCEPT !.current_straight_distance =
                        @ + SegmentDistance(coordinates[i], coordinates[i + 1])]
         IN  AnalyzeFrom(coordinates, bearings, min_curve_angle, i + 1, next)

RECURSIVE MaxOf(_)
MaxOf(s) ==
    IF Len(s) = 0 THEN 0
    ELSE IF s[1] >= MaxOf(Tail(s)) THEN s[1] ELSE MaxOf(Tail(s))

NotAnalysed ==
    [returned |-> "nothing", curve_count_total |-> 0, curve_count_gentle |-> 0,
     curve_count_moderate |-> 0, curve_count_sharp |-> 0, straight_count |-> 0,
     longest_straight_km |-> 0]

\* Distances are whole grid units, which round(_, 2) leaves as they are.
TooFewPointsNever(n) == FALSE

\* if len(coordinates) < 3: return None
TooFewPoints(n) == n < 3

analyze_curves(coordinates, min_curve_angle) ==
    IF TooFewPoints(Len(coordinates)) THEN [NotAnalysed EXCEPT !.returned = "None"]
    ELSE LET acc == AnalyzeFrom(coordinates, Bearings(coordinates), min_curve_angle, 1,
                       [curves_gentle |-> 0, curves_moderate |-> 0, curves_sharp |-> 0,
                        straights |-> <<>>, current_straight_distance |-> 0])
             straights == LastStraight(acc.straights, acc.current_straight_distance)
         IN  [returned |-> "dict",
              curve_count_total |-> acc.curves_gentle + acc.curves_moderate + acc.curves_sharp,
              curve_count_gentle |-> acc.curves_gentle,
              curve_count_moderate |-> acc.curves_moderate,
              curve_count_sharp |-> acc.curves_sharp,
              straight_count |-> Len(straights),
              longest_straight_km |-> MaxOf(straights)]

RECURSIVE PathFrom(_, _)
PathFrom(start, moves) ==
    IF Len(moves) = 0 THEN <<start>>
    ELSE <<start>> \o PathFrom(<<Lon(start) + moves[1][1], Lat(start) + moves[1][2]>>,
                               Tail(moves))

NoDistance == -1

\* Inputs: the empty path, every path of up to MaxMoves steps, and the 9-point paths that go
\* north, north-east or east at each step.
CurvePaths ==
    {<<>>} \cup {PathFrom(<<0, 0>>, m) : m \in SeqsUpTo(Moves, MaxMoves)}
    \cup {PathFrom(<<0, 0>>, m) :
            m \in [1..(WindingPoints - 1) -> { <<0, 1>>, <<1, 1>>, <<1, 0>> }]}

\* ------------------------------------------------------------ elevation
\* Longest route, in points, of the enumerated inputs.
MaxRoute == 4

\* Largest sampling interval of the enumerated inputs.
MaxInterval == 3

ElevationLevels == {100, 200, 350}

\* The mountain pass of the cumulative elevation test.
MountainPass == <<100, 200, 350, 500, 400, 300, 450, 600>>

\* Elevation the service returns for each point of the route.
Terrains == SeqsUpTo(ElevationLevels, MaxRoute) \cup {MountainPass}

\* coordinates[::sample_interval], as positions 1..n of the route.
SampleEveryNth(n, sample_interval) == {i \in 1..n : (i - 1) % sample_interval = 0}

\* Every sample_interval-th point, always with the first and the last.
SampleIndices(n, sample_interval) ==
    SampleEveryNth(n, sample_interval) \cup (IF n >= 1 THEN {1, n} ELSE {})

RECURSIVE Ascending(_)
Ascending(S) ==
    IF S = {} THEN <<>>
    ELSE LET least == CHOOSE x \in S : \A y \in S : x <= y
         IN  <<least>> \o Ascending(S \ {least})

AddStepNet(acc, diff) == [acc EXCEPT !.elevation_gain = @ + diff]

\* A positive step adds to the gain, any other adds its magnitude to the loss.
AddStep(acc, diff) ==
    IF diff > 0 THEN [acc EXCEPT !.elevation_gain = @ + diff]
    ELSE [acc EXCEPT !.elevation_loss = @ + Abs(diff)]

RECURSIVE ElevationFrom(_, _, _)
ElevationFrom(elevs, i, acc) ==
    IF i > Len(elevs) - 1 THEN acc
    ELSE ElevationFrom(elevs, i + 1, AddStep(acc, elevs[i + 1] - elevs[i]))

RECURSIVE MinOf(_)
MinOf(s) ==
    IF Len(s) = 1 THEN s[1]
    ELSE IF s[1] <= MinOf(Tail(s)) THEN s[1] ELSE MinOf(Tail(s))

NoElevation ==
    [returned |-> FALSE, elevation_max |-> 0, elevation_min |-> 0,
     elevation_gain |-> 0, elevation_loss |-> 0]

\* Elevations are whole metres, which int(_) leaves as they are.
calculate_elevation_metrics(elevs) ==
    IF Len(elevs) = 0 THEN [NoElevation EXCEPT !.returned = TRUE]
    ELSE LET acc == ElevationFrom(elevs, 1, [elevation_gain |-> 0, elevation_loss |-> 0])
         IN  [returned |-> TRUE,
              elevation_max |-> MaxOf(elevs),
              elevation_min |-> MinOf(elevs),
              elevation_gain |-> acc.elevation_gain,
              elevation_loss |-> acc.elevation_loss]

\* ------------------------------------------------- frontend: useRoads
\* Fetches started by the hook in one run, the one on mount included.
MaxFetches == 3

\* null (all roads), 'Continental', 'Madeira', 'Açores'.
Regions == {"All", "Continental", "Madeira", "Acores"}

FetchOutcomes == {"data", "empty", "error"}

NoRoads == "none"

\* State setters run by fetchData once the awaited response of a fetch for
\* region r is there: the rows of r on success, [] otherwise.
RoadsAfter(r, outcome) == IF outcome = "data" THEN r ELSE NoRoads

ErrorAfter(outcome) ==
    CASE outcome = "data" -> "null"
      [] outcome = "empty" -> "NO_DATA"
      [] outcome = "error" -> "FETCH_ERROR"

\* -------------------------------------------- frontend: ActionButtons
\* Seconds of one run of the feedback component.
MaxTime == 7

\* showFeedback calls in one run.
MaxShows == 3

\* setTimeout(..., 3000), in seconds.
FEEDBACK_TIMEOUT_S == 3

NoFeedback == "null"

FeedbackTypes == {"success", "error"}

\* ------------------------------------------ frontend: RoadMap route
\* Changes of the selected road in one run.
MaxSelections == 3

\* Steps of the draw animation (50 in the component, scaled down).
steps == 3

NoRoad == "null"

\* Roads the sidebar can hand to the map: two that draw, one whose end point
\* is outside Portugal, one without geometry, and one whose drawing throws
\* after the route and the markers were added.
MapRoads ==
    [id \in {"A", "B", "X", "G", "T"} |->
        [code |-> id,
         points |-> CASE id = "A" -> 4 [] id = "B" -> 7 [] OTHER -> 2,
         start_ok |-> TRUE,
         end_ok |-> id # "X",
         geometry |-> id # "G",
         throws |-> id = "T"]]

\* validateRoadCoordinates: valid when no error was pushed for the start or
\* the end point.
validateRoadCoordinates(r) == r.start_ok /\ r.end_ok

CeilDiv(a, b) == (a + b - 1) \div b

Min(a, b) == IF a <= b THEN a ELSE b

\* coordinates.slice(0, (step + 1) * segmentLength), as a number of points.
SliceLength(points, step) == Min(points, (step + 1) * CeilDiv(points, steps))

NoSource == [exists |-> FALSE, owner |-> NoRoad, data |-> NoRoad, upto |-> 0]

MarkersKept(markers, start_ref, end_ref) == markers

\* cleanupRoute: the markers held by the two refs are removed from the map.
MarkersRemoved(markers, start_ref, end_ref) ==
    {m \in markers : m.serial \notin {start_ref, end_ref}}

\* ----------------------------------- frontend: RoadMap initialisation
\* Calls of initializeMap in one run (the mount and the retries).
MaxInits == 3

\* Seconds of one run.
MaxMapTime == 16

\* LOAD_TIMEOUT = 10000 ms, in seconds.
LOAD_TIMEOUT_S == 10

NoError == "null"

MapErrorKinds == {"INVALID_TOKEN", "NETWORK", "GENERAL"}

TimersKept(timers, ref) == timers

\* clearTimeout(loadTimeoutRef.current)
TimersCleared(timers, ref) == {t \in timers : t.id # ref}

\* ------------------------------------------ frontend: useDebouncedValue
\* Changes of the input in one run.
MaxChanges == 3

\* Length of one run, in units of 100 ms.
MaxDebounceTime == 9

\* delay = 300 ms, in units of 100 ms.
delay == 3

\* Search texts typed into the box.
Queries == {"", "N", "N2"}

TimeoutsKept(timeouts, timeoutId) == timeouts

\* The effect's cleanup: clearTimeout(timeoutId).
TimeoutsCleared(timeouts, timeoutId) == {t \in timeouts : t.id # timeoutId}

VARIABLES vcand, vreport, rresp, rres, store, clock, got, ccoords, cmetrics, cdistance,
          uregion, fetches, uroads, uloading, uerror,
          value, debouncedValue, timeoutId, timeouts, dclock, changedAt, dchanges,
          token, iclock, icount, lastInit, mapref, loadTimeoutRef, ltimers, mapLoaded, error, loadFired, eventSince,
          mselected, msource, mlayer, mmarkers, mstart, mend, mserial, animq, mcount,
          feedback, ftimers, fclock, fshown, fcount,
          eterrain, einterval, esampled, elevations, emetrics, epc,
          batch, idx, pc, tier, cause, qi, retries, cand, provenance, tried,
          si, allCoords, segFailed, wi, wcoords,
          cache, validated, metricsIn, emitted, failures,
          inflight, sinceLast, outcome

cachev == <<store, clock, got>>
curvev == <<ccoords, cmetrics, cdistance>>
elevv == <<eterrain, einterval, esampled, elevations, emetrics, epc>>
roadsv == <<uregion, fetches, uroads, uloading, uerror>>
feedbackv == <<feedback, ftimers, fclock, fshown, fcount>>
mapv == <<mselected, msource, mlayer, mmarkers, mstart, mend, mserial, animq, mcount>>
loadv == <<token, iclock, icount, lastInit, mapref, loadTimeoutRef, ltimers, mapLoaded, error, loadFired, eventSince>>
debouncev == <<value, debouncedValue, timeoutId, timeouts, dclock, changedAt, dchanges>>
frontend == <<roadsv, feedbackv, mapv, loadv, debouncev>>
harness == <<vcand, vreport, rresp, rres, cachev, curvev, elevv, frontend>>
road == <<tier, cause, qi, retries, cand, provenance, tried>>
segv == <<si, allCoords, segFailed>>
wayv == <<wi, wcoords>>
durable == <<cache, validated, metricsIn, emitted, failures>>

net == <<inflight, sinceLast, outcome>>

vars == <<harness, batch, idx, pc, road, segv, wayv, durable, net>>
notcache == <<vcand, vreport, rresp, rres, curvev, elevv, frontend,
                   batch, idx, pc, road, segv, wayv, durable, net>>

IdleValidate == vcand = <<>> /\ vreport = NoReport
IdleResolve == rresp = <<>> /\ rres = NoResult
IdleRoads ==
    /\ uregion = "All" /\ fetches = <<>> /\ uroads = NoRoads
    /\ uloading = FALSE /\ uerror = "null"
IdleFeedback ==
    /\ feedback = NoFeedback /\ ftimers = {} /\ fclock = 0 /\ fshown = -1 /\ fcount = 0
IdleMap ==
    /\ mselected = NoRoad /\ msource = NoSource /\ mlayer = NoRoad
    /\ mmarkers = {} /\ mstart = 0 /\ mend = 0 /\ mserial = 0
    /\ animq = <<>> /\ mcount = 0
IdleLoad ==
    /\ token = TRUE /\ iclock = 0 /\ icount = 0 /\ lastInit = 0
    /\ mapref = 0 /\ loadTimeoutRef = 0 /\ ltimers = {}
    /\ mapLoaded = TRUE /\ error = NoError
    /\ loadFired = FALSE /\ eventSince = FALSE
IdleDebounce ==
    /\ value = "" /\ debouncedValue = "" /\ timeoutId = 0 /\ timeouts = {}
    /\ dclock = 0 /\ changedAt = 0 /\ dchanges = 0
IdleFrontend == IdleRoads /\ IdleFeedback /\ IdleMap /\ IdleLoad /\ IdleDebounce
IdleElevation ==
    /\ eterrain = <<>> /\ einterval = 1 /\ esampled = <<>> /\ elevations = <<>>
    /\ emetrics = NoElevation /\ epc = "idle"
IdleCurves == ccoords = <<>> /\ cmetrics = NotAnalysed /\ cdistance = NoDistance
IdleCache == store = [r \in Roads |-> NoEntry] /\ clock = 0 /\ got = NoRead
IdlePipeline ==
    /\ batch = <<>> /\ idx = 1 /\ pc = "done"
    /\ tier = "none" /\ cause = "none" /\ qi = 1 /\ retries = 0
    /\ cand = NoGeometry /\ provenance = "none" /\ tried = <<>>
    /\ si = 1 /\ allCoords = <<>> /\ segFailed = 0
    /\ wi = 1 /\ wcoords = <<>>
    /\ cache = [r \in Roads |-> NoEntry]
    /\ validated = {} /\ metricsIn = NoGeometry /\ emitted = {} /\ failures = {}
    /\ inflight = 0 /\ sinceLast = MIN_DELAY_S /\ outcome = "none"

\* ----------------------------------------------- validator specification
InitValidate ==
    /\ vcand \in Candidates
    /\ vreport = NoReport
    /\ IdleResolve /\ IdleCache /\ IdleCurves /\ IdleElevation /\ IdleFrontend
    /\ IdlePipeline

RunValidate ==
    /\ vreport.verdict = "none"
    /\ vreport' = validate(vcand, Bbox)
    /\ UNCHANGED <<vcand, rresp, rres, cachev, curvev, elevv, frontend,
                   batch, idx, pc, road, segv, wayv, durable, net>>

NextValidate == RunValidate

SpecValidate == InitValidate /\ [][NextValidate]_vars

\* C3: a candidate with at least one point outside the bounding box gets a
\* failing verdict, and the report covers the whole candidate (no point is
\* dropped to let the rest pass).
C3_AnyPointOutsideRejectsAll ==
    (vreport.verdict # "none"
        /\ \E i \in DOMAIN vcand :
              \/ Lon(vcand[i]) < Bbox.west \/ Lon(vcand[i]) > Bbox.east
              \/ Lat(vcand[i]) < Bbox.south \/ Lat(vcand[i]) > Bbox.north)
    => /\ vreport.verdict \in {"out_of_bounds", "hard_fail", "soft_fail"}
       /\ vreport.points = Len(vcand)
       /\ vreport.violations >= 1

\* One of three points lies outside, the first two alone are dense enough.
C3_Witness ==
    /\ vreport.verdict = "out_of_bounds"
    /\ Len(vcand) = 3
    /\ vreport.violations = 1
    /\ InBbox(vcand[1], Bbox) /\ InBbox(vcand[2], Bbox)
    /\ DensityVerdict(2, SegmentDistance(vcand[1], vcand[2])) = "pass"

\* C7: with every point inside the bounding box the verdict is decided by the
\* density points/km alone: below 1.0 hard failure, in [1.0, 2.0) soft
\* failure, 2.0 or more pass; exactly one of the three.
C7_DensityClassification ==
    (vreport.verdict # "none" /\ vreport.violations = 0)
    => LET n == Len(vcand) * GridPerKm
           d == vreport.distance
       IN  /\ vreport.verdict \in {"pass", "soft_fail", "hard_fail"}
           /\ (vreport.verdict = "hard_fail") <=> (n < d)
           /\ (vreport.verdict = "soft_fail") <=> (d <= n /\ n < 2 * d)
           /\ (vreport.verdict = "pass") <=> (n >= 2 * d)

\* Density exactly 1.0 points/km: the lower edge of the soft band.
C7_Witness ==
    /\ vreport.verdict = "soft_fail"
    /\ vreport.violations = 0
    /\ Len(vcand) * GridPerKm = vreport.distance

\* ------------------------------------------------ resolver specification
InitResolve ==
    /\ rresp \in Responses
    /\ rres = NoResult
    /\ IdleValidate /\ IdleCache /\ IdleCurves /\ IdleElevation /\ IdleFrontend
    /\ IdlePipeline

RunResolve ==
    /\ rres.kind = "none"
    /\ rres' = resolve(rresp, Bbox)
    /\ UNCHANGED <<vcand, vreport, rresp, cachev, curvev, elevv, frontend,
                   batch, idx, pc, road, segv, wayv, durable, net>>

NextResolve == RunResolve

SpecResolve == InitResolve /\ [][NextResolve]_vars

\* Points of response object i that lie inside the bounding box.
ScoreOf(i) ==
    LET pts == Flatten(rresp[i])
    IN  Cardinality({k \in DOMAIN pts :
            /\ Bbox.west <= Lon(pts[k]) /\ Lon(pts[k]) <= Bbox.east
            /\ Bbox.south <= Lat(pts[k]) /\ Lat(pts[k]) <= Bbox.north})

\* C8: fragments that cannot be chained are never concatenated into the
\* returned geometry: a geometry is returned only when every fragment was
\* connected, otherwise the candidate is reported as fragmented with a count.
C8_UnmatchedNeverConcatenated ==
    rres.kind = "geometry"
    => /\ rres.disconnected = 0
       /\ \A k \in 1..(Len(rres.coords) - 1) :
             \E i \in DOMAIN rresp : \E f \in DOMAIN rresp[i] :
                \E j \in 1..(Len(rresp[i][f]) - 1) :
                   {rres.coords[k], rres.coords[k + 1]}
                      = {rresp[i][f][j], rresp[i][f][j + 1]}

\* C9: from a response with several route objects, one of which has points
\* inside the bounding box, the resolver takes the object with the greatest
\* number of points inside it, whatever the order and lengths of the objects,
\* and the geometry is made of that object's points only.
C9_SelectsHighestScore ==
    (rres.kind # "none" /\ Len(rresp) > 1 /\ \E i \in DOMAIN rresp : ScoreOf(i) > 0)
    => /\ rres.kind = "geometry"
       /\ Len(rres.selected) = 1
       /\ \A j \in DOMAIN rresp : ScoreOf(rres.selected[1]) >= ScoreOf(j)
       /\ Range(rres.coords) = Range(Flatten(rresp[rres.selected[1]]))

\* A short object wholly outside the bounding box comes first, a longer one
\* wholly inside second: the second is selected.
C9_Witness ==
    /\ rres.kind = "geometry"
    /\ Len(rresp) = 2
    /\ Len(rresp[1]) = 1 /\ ScoreOf(1) = 0
    /\ Len(rresp[2]) = 2 /\ ScoreOf(2) = 4
    /\ rres.selected = <<2>>

\* C10: when no object of the response has a point inside the bounding box
\* the resolver returns NoMatch, for one object as for several.
C10_NoMatchWhenAllScoreZero ==
    (rres.kind # "none" /\ Len(rresp) >= 1 /\ \A i \in DOMAIN rresp : ScoreOf(i) = 0)
    => rres.kind = "NoMatch"

\* --------------------------------------------------- cache specification
InitCache ==
    /\ IdleCache /\ IdleCurves /\ IdleElevation /\ IdleFrontend
    /\ IdleValidate /\ IdleResolve
    /\ IdlePipeline

CachePut(r, g) ==
    /\ store' = put(store, r, g, clock)
    /\ UNCHANGED <<clock, got, notcache>>

CacheRead(r) ==
    /\ got' = [road |-> r, result |-> get(store, r, clock), at |-> clock]
    /\ UNCHANGED <<store, clock, notcache>>

\* Time passes between runs.
CacheTick ==
    /\ clock < MaxTicks
    /\ clock' = clock + 1
    /\ UNCHANGED <<store, got, notcache>>

\* A cache file is damaged on disk.
CacheCorrupt(r) ==
    /\ store[r] # NoEntry /\ ~store[r].corrupt
    /\ store' = [store EXCEPT ![r].corrupt = TRUE]
    /\ UNCHANGED <<clock, got, notcache>>

NextCache ==
    \/ \E r \in Roads, g \in GeometryPool : CachePut(r, g)
    \/ \E r \in Roads : CacheRead(r)
    \/ CacheTick
    \/ \E r \in Roads : CacheCorrupt(r)

SpecCache == InitCache /\ [][NextCache]_vars

C11_ReadStep ==
    (got' # got)
    => /\ store' = store /\ clock' = clock
       /\ got'.at = clock
       /\ LET e == store[got'.road]
          IN  IF \/ e = NoEntry
                 \/ e.corrupt
                 \/ (clock - e.saved) * DaysPerTick > 30
              THEN got'.result = <<>>
              ELSE got'.result = e.coords /\ got'.result # <<>>

\* C11: get returns absent when there is no entry, when the entry is more
\* than 30 days old or when it is corrupt, and the stored geometry otherwise;
\* a get leaves the store as it was, stale entries included.
C11_GetAbsentOrStored == [][C11_ReadStep]_vars

\* A get just returned absent for an intact entry that is 40 days old, and
\* the entry is still in the store; the other road's entry, exactly 30 days
\* old, is still served.
C11_Witness ==
    /\ got.at = clock /\ got.road = "N2" /\ got.result = <<>>
    /\ store["N2"] # NoEntry /\ ~store["N2"].corrupt
    /\ (clock - store["N2"].saved) * DaysPerTick = 40
    /\ store["N222"] # NoEntry /\ ~store["N222"].corrupt
    /\ (clock - store["N222"].saved) * DaysPerTick = 30
    /\ get(store, "N222", clock) = store["N222"].coords

\* ------------------------------------------- curve analysis specification
InitCurves ==
    /\ ccoords \in CurvePaths /\ cmetrics = NotAnalysed /\ cdistance = NoDistance
    /\ IdleValidate /\ IdleResolve /\ IdleCache /\ IdleElevation /\ IdleFrontend
    /\ IdlePipeline

RunAnalyzeCurves ==
    /\ cmetrics = NotAnalysed
    /\ cmetrics' = analyze_curves(ccoords, MIN_CURVE_ANGLE)
    /\ UNCHANGED <<ccoords, cdistance, vcand, vreport, rresp, rres, cachev, elevv, frontend, batch,
                   idx, pc, road, segv, wayv, durable, net>>

RunTotalDistance ==
    /\ cdistance = NoDistance
    /\ cdistance' = calculate_total_distance(ccoords)
    /\ UNCHANGED <<ccoords, cmetrics, vcand, vreport, rresp, rres, cachev, elevv, frontend, batch,
                   idx, pc, road, segv, wayv, durable, net>>

NextCurves == RunAnalyzeCurves \/ RunTotalDistance

SpecCurves == InitCurves /\ [][NextCurves]_vars

\* Direction changes along the analysed path, one per interior point.
AngleChanges ==
    [k \in 1..(Len(ccoords) - 2) |->
        calculate_angle_difference(calculate_bearing(ccoords[k], ccoords[k + 1]),
                                   calculate_bearing(ccoords[k + 1], ccoords[k + 2]))]

IsCurve(k) == AngleChanges[k] >= MIN_CURVE_ANGLE

\* a..b is a maximal stretch of consecutive sub-threshold direction changes.
IsStraightRun(a, b) ==
    /\ a <= b
    /\ \A k \in a..b : ~IsCurve(k)
    /\ a = 1 \/ IsCurve(a - 1)
    /\ b = Len(ccoords) - 2 \/ IsCurve(b + 1)

RECURSIVE RunDistance(_, _)
RunDistance(a, b) ==
    IF a > b THEN 0
    ELSE SegmentDistance(ccoords[a], ccoords[a + 1]) + RunDistance(a + 1, b)

StraightRuns ==
    {r \in (1..(Len(ccoords) - 2)) \X (1..(Len(ccoords) - 2)) :
        IsStraightRun(r[1], r[2]) /\ RunDistance(r[1], r[2]) > 0}

\* A 9-point path with two turns of 45 to 90 degrees and a straight stretch
\* before, between and after them.
IsWindingPath ==
    /\ Len(ccoords) = WindingPoints
    /\ \A k \in DOMAIN AngleChanges :
          IsCurve(k) => AngleChanges[k] >= 45 /\ AngleChanges[k] < 90
    /\ \E k1, k2 \in DOMAIN AngleChanges :
          /\ 1 < k1 /\ k1 + 1 < k2 /\ k2 < Len(ccoords) - 2
          /\ \A k \in DOMAIN AngleChanges : IsCurve(k) <=> k \in {k1, k2}

\* C20: analyze_curves counts one curve per direction change at or above the
\* threshold and one straight per maximal stretch of consecutive sub-threshold
\* changes of positive length, whether a curve closed it or it was still open
\* at the final point, and reports the longest of them; for a 9-point winding
\* path with two 45-90 degree turns and three straight stretches the counts
\* are 2 curves, 2 moderate and 3 straights.
C20_StraightRunsCounted ==
    cmetrics.returned = "dict"
    => /\ cmetrics.curve_count_total = Cardinality({k \in DOMAIN AngleChanges : IsCurve(k)})
       /\ cmetrics.straight_count = Cardinality(StraightRuns)
       /\ \A r \in StraightRuns : RunDistance(r[1], r[2]) <= cmetrics.longest_straight_km
       /\ StraightRuns # {}
            => \E r \in StraightRuns : RunDistance(r[1], r[2]) = cmetrics.longest_straight_km
       /\ IsWindingPath
            => /\ cmetrics.curve_count_total = 2
               /\ cmetrics.curve_count_moderate = 2
               /\ cmetrics.straight_count = 3

\* A winding path was analysed: east, north-east and east again, three points
\* on each stretch, the last stretch still open at the final point.
C20_Witness ==
    /\ cmetrics.returned = "dict"
    /\ IsWindingPath
    /\ ccoords = PathFrom(<<0, 0>>, << <<1, 0>>, <<1, 0>>, <<1, 0>>, <<1, 1>>, <<1, 1>>,
                                       <<1, 1>>, <<1, 0>>, <<1, 0>> >>)
    /\ ~IsCurve(Len(ccoords) - 2)
    /\ cmetrics.straight_count = 3

ChangesIn(lo, hi) == {k \in DOMAIN AngleChanges : lo <= AngleChanges[k] /\ AngleChanges[k] < hi}

\* C21: every interior point whose circular bearing difference is at least
\* 20 degrees is counted as exactly one curve, gentle for [20,45), moderate
\* for [45,90) and sharp for [90,180], so the total is the sum of the three
\* classes; a difference below 20 degrees is not counted.
C21_CurvesClassified ==
    cmetrics.returned = "dict"
    => /\ \A k \in DOMAIN AngleChanges : AngleChanges[k] >= 0 /\ AngleChanges[k] <= 180
       /\ cmetrics.curve_count_gentle = Cardinality(ChangesIn(MIN_CURVE_ANGLE, 45))
       /\ cmetrics.curve_count_moderate = Cardinality(ChangesIn(45, 90))
       /\ cmetrics.curve_count_sharp = Cardinality(ChangesIn(90, 181))
       /\ cmetrics.curve_count_total =
             cmetrics.curve_count_gentle + cmetrics.curve_count_moderate
             + cmetrics.curve_count_sharp
       /\ cmetrics.curve_count_total =
             Cardinality(DOMAIN AngleChanges) - Cardinality(ChangesIn(0, MIN_CURVE_ANGLE))

\* A path was analysed whose direction changes are 20, 11 and 90 degrees:
\* the first is a gentle curve, the second is no curve, the third is sharp.
C21_Witness ==
    /\ cmetrics.returned = "dict"
    /\ AngleChanges = <<20, 11, 90>>
    /\ cmetrics.curve_count_gentle = 1 /\ cmetrics.curve_count_moderate = 0
    /\ cmetrics.curve_count_sharp = 1 /\ cmetrics.curve_count_total = 2

InitElevation ==
    /\ eterrain \in Terrains /\ einterval \in 1..MaxInterval
    /\ esampled = <<>> /\ elevations = <<>> /\ emetrics = NoElevation /\ epc = "sample"
    /\ IdleValidate /\ IdleResolve /\ IdleCache /\ IdleCurves /\ IdleFrontend
    /\ IdlePipeline

notelev == <<vcand, vreport, rresp, rres, cachev, curvev, frontend, batch, idx, pc, road, segv, wayv,
             durable, net>>

\* The points whose elevation will be requested are chosen.
SampleRoute ==
    /\ epc = "sample"
    /\ esampled' = Ascending(SampleIndices(Len(eterrain), einterval))
    /\ epc' = "fetch"
    /\ UNCHANGED <<eterrain, einterval, elevations, emetrics, notelev>>

\* One request to the elevation service, for the next sampled point.
FetchElevation ==
    /\ epc = "fetch"
    /\ Len(elevations) < Len(esampled)
    /\ elevations' = Append(elevations, eterrain[esampled[Len(elevations) + 1]])
    /\ UNCHANGED <<eterrain, einterval, esampled, emetrics, epc, notelev>>

ElevationMetrics ==
    /\ epc = "fetch"
    /\ Len(elevations) = Len(esampled)
    /\ emetrics' = calculate_elevation_metrics(elevations)
    /\ epc' = "done"
    /\ UNCHANGED <<eterrain, einterval, esampled, elevations, notelev>>

NextElevation == SampleRoute \/ FetchElevation \/ ElevationMetrics

SpecElevation == InitElevation /\ [][NextElevation]_vars

\* Sum over the steps of the series, from the last back to the first, of the
\* rises (up = TRUE) or of the falls (up = FALSE).
RECURSIVE StepTotal(_, _, _)
StepTotal(elevs, n, up) ==
    IF n < 2 THEN 0
    ELSE StepTotal(elevs, n - 1, up)
         + (IF up /\ elevs[n] > elevs[n - 1] THEN elevs[n] - elevs[n - 1]
            ELSE IF ~up /\ elevs[n] < elevs[n - 1] THEN elevs[n - 1] - elevs[n]
            ELSE 0)

\* C22: elevation gain is the sum of all positive steps between consecutive
\* samples and loss the sum of the magnitudes of all negative steps, so that
\* gain - loss is the net change; for the series
\* [100,200,350,500,400,300,450,600] gain is 700 and loss is 200.
C22_CumulativeGainLoss ==
    emetrics.returned
    => /\ emetrics.elevation_gain = StepTotal(elevations, Len(elevations), TRUE)
       /\ emetrics.elevation_loss = StepTotal(elevations, Len(elevations), FALSE)
       /\ emetrics.elevation_gain >= 0 /\ emetrics.elevation_loss >= 0
       /\ Len(elevations) >= 1
            => emetrics.elevation_gain - emetrics.elevation_loss
                 = elevations[Len(elevations)] - elevations[1]
       /\ elevations = MountainPass
            => emetrics.elevation_gain = 700 /\ emetrics.elevation_loss = 200

\* The mountain pass was sampled at every point and its metrics computed: the
\* gain is not the net change of 500.
C22_Witness ==
    /\ emetrics.returned /\ epc = "done"
    /\ elevations = MountainPass
    /\ emetrics.elevation_gain = 700 /\ emetrics.elevation_loss = 200
    /\ elevations[Len(elevations)] - elevations[1] = 500

Init ==
    /\ IdleValidate /\ IdleResolve /\ IdleCache /\ IdleCurves /\ IdleElevation /\ IdleFrontend
    /\ batch \in Batches /\ idx = 1 /\ pc = "cache"
    /\ tier = "cache" /\ cause = "none" /\ qi = 1 /\ retries = 0
    /\ cand = NoGeometry /\ provenance = "none" /\ tried = <<"cache">>
    /\ si = 1 /\ allCoords = <<>> /\ segFailed = 0
    /\ wi = 1 /\ wcoords = <<>>
    /\ cache \in InitialCaches
    /\ validated = {cache[r].coords : r \in {q \in Roads : cache[q] # NoEntry}}
    /\ metricsIn = NoGeometry /\ emitted = {} /\ failures = {}
    /\ inflight = 0 /\ sinceLast = MIN_DELAY_S /\ outcome = "none"

\* The road is finished (record emitted, or final failure): the batch loop
\* moves on to the next road.
NextRoadUnlessFailed(i, n, ok) == IF ok /\ i + 1 <= n THEN "cache" ELSE "done"

\* main: the loop goes on to the next road whether process_single_road
\* returned True or False.
NextRoad(i, n, ok) == IF i + 1 > n THEN "done" ELSE "cache"

FinishRoad(ok) ==
    /\ idx' = idx + 1
    /\ pc' = NextRoad(idx, Len(batch), ok)
    /\ tier' = IF NextRoad(idx, Len(batch), ok) = "done" THEN "none" ELSE "cache"
    /\ tried' = IF NextRoad(idx, Len(batch), ok) = "done" THEN <<>> ELSE <<"cache">>
    /\ cause' = "none" /\ qi' = 1 /\ retries' = 0
    /\ cand' = NoGeometry /\ provenance' = "none"
    /\ si' = 1 /\ allCoords' = <<>> /\ segFailed' = 0
    /\ wi' = 1 /\ wcoords' = <<>>
    /\ metricsIn' = NoGeometry

Failure(reason) ==
    [pos |-> idx, road |-> batch[idx], reason |-> reason, last |-> tier]

\* The current tier failed for cause c: try the next tier, or report the
\* road's final failure when none is left.
Escalate(c) ==
    LET t == NextTier(tier, c)
    IN  IF t = "none"
        THEN /\ failures' = failures \cup {Failure("exhausted")}
             /\ FinishRoad(FALSE)
        ELSE /\ pc' = t /\ tier' = t /\ cause' = c /\ tried' = Append(tried, t)
             /\ qi' = 1 /\ retries' = 0
             /\ cand' = NoGeometry /\ provenance' = "none"
             /\ si' = 1 /\ allCoords' = <<>> /\ segFailed' = 0
             /\ wi' = 1 /\ wcoords' = <<>>
             /\ metricsIn' = NoGeometry
             /\ idx' = idx /\ failures' = failures

NextCandidateOr(c) ==
    IF qi < MaxQueries
    THEN /\ qi' = qi + 1 /\ retries' = 0
         /\ UNCHANGED <<idx, pc, tier, cause, cand, provenance, tried, segv, wayv,
                        metricsIn, failures>>
    ELSE Escalate(c)

\* The current tier is about to make an external API request.
RequestDue ==
    \/ pc = "query"
    \/ pc = "segment" /\ si <= NUM_SEGMENTS
    \/ pc = "waypoint" /\ wi <= MaxPairs

\* A second passes before the next request (time.sleep between requests).
Sleep ==
    /\ RequestDue
    /\ inflight = 0 /\ sinceLast < MIN_DELAY_S
    /\ sinceLast' = sinceLast + 1
    /\ UNCHANGED <<harness, batch, idx, pc, road, segv, wayv, durable, inflight, outcome>>

\* The next external API request of the current tier is issued.
SendRequest ==
    /\ RequestDue
    /\ inflight <= 1
    /\ MayRequest(inflight, sinceLast)
    /\ inflight' = inflight + 1 /\ sinceLast' = 0
    /\ UNCHANGED <<harness, batch, idx, pc, road, segv, wayv, durable, outcome>>

\* The request in flight returns with outcome o.
Complete(o) ==
    /\ inflight >= 1
    /\ inflight' = inflight - 1 /\ outcome' = o
    /\ UNCHANGED sinceLast

\* Cache: a hit skips to the Metrics Engine, a miss goes on to the direct query.
CacheGet ==
    /\ pc = "cache"
    /\ IF get(cache, batch[idx], clock) # <<>>
       THEN /\ cand' = get(cache, batch[idx], clock)
            /\ provenance' = "cache"
            /\ pc' = "metrics"
            /\ UNCHANGED <<idx, tier, cause, qi, retries, tried, segv, wayv,
                           metricsIn, failures>>
       ELSE Escalate("miss")
    /\ UNCHANGED <<harness, net, batch, cache, validated, emitted>>

\* Source Fetcher failure on the current query candidate.
DirectFetchError(kind) ==
    /\ pc = "query"
    /\ IF Retryable(kind)
       THEN IF retries < MaxRetries
            THEN /\ retries' = CountRetry(retries)
                 /\ UNCHANGED <<idx, pc, tier, cause, qi, cand, provenance, tried,
                                segv, wayv, metricsIn, failures>>
            ELSE Escalate("timeout")
       ELSE NextCandidateOr("error")
    /\ UNCHANGED <<harness, batch, cache, validated, emitted>>
    /\ Complete(kind)

\* Source Fetcher response, passed through the Relation/Segment Resolver.
DirectFetchResponse(resp) ==
    /\ pc = "query"
    /\ LET res == resolve(resp, Bbox)
       IN  IF res.kind = "NoMatch" THEN NextCandidateOr("nomatch")
           ELSE IF res.disconnected > 0 THEN Escalate("fragmented")
           ELSE /\ cand' = res.coords
                /\ provenance' = "direct-query"
                /\ pc' = "validate"
                /\ UNCHANGED <<idx, tier, cause, qi, retries, tried, segv, wayv,
                               metricsIn, failures>>
    /\ UNCHANGED <<harness, batch, cache, validated, emitted>>
    /\ Complete(LET res == resolve(resp, Bbox)
                IN  IF res.kind = "NoMatch" THEN "NoMatch"
                    ELSE IF res.disconnected > 0 THEN "Fragmented" ELSE "geometry")

\* for segment_bbox in segments: coords = fetch_single_segment(...)
SegmentFetch(ok) ==
    /\ pc = "segment"
    /\ si <= NUM_SEGMENTS
    /\ si' = si + 1
    /\ allCoords' = IF ok THEN Append(allCoords, SegmentPiece(si)) ELSE allCoords
    /\ segFailed' = IF ok THEN segFailed ELSE segFailed + 1
    /\ UNCHANGED <<harness, batch, idx, pc, road, wayv, durable>>
    /\ Complete(IF ok THEN "geometry" ELSE "Fragmented")

\* merged = merge_way_segments(all_coords)
SegmentMerge ==
    /\ pc = "segment"
    /\ si > NUM_SEGMENTS
    /\ LET merged == MergeSegments(allCoords)
       IN  IF ~SegmentationComplete(segFailed, merged.disconnected)
           THEN Escalate(IF segFailed > 0 THEN "partial" ELSE "segmentation")
           ELSE /\ cand' = merged.coords
                /\ provenance' = "segmented"
                /\ pc' = "validate"
                /\ UNCHANGED <<idx, tier, cause, qi, retries, tried, segv, wayv,
                               metricsIn, failures>>
    /\ UNCHANGED <<harness, net, batch, cache, validated, emitted>>

\* Routing service failure for the current waypoint pair.
WaypointRoutingError ==
    /\ pc = "waypoint"
    /\ wi <= MaxPairs
    /\ Escalate("routing")
    /\ UNCHANGED <<harness, batch, cache, validated, emitted>>
    /\ Complete("RoutingError")

\* Routed path for the current waypoint pair, validated before concatenation.
WaypointSubRoute(sub) ==
    /\ pc = "waypoint"
    /\ wi <= MaxPairs
    /\ IF SubRouteAccepted(sub)
       THEN /\ wcoords' = IF wcoords = <<>> THEN sub ELSE wcoords \o Tail(sub)
            /\ wi' = wi + 1
            /\ UNCHANGED <<idx, pc, tier, cause, qi, retries, cand, provenance,
                           tried, segv, metricsIn, failures>>
       ELSE Escalate("routing")
    /\ UNCHANGED <<harness, batch, cache, validated, emitted>>
    /\ Complete("route")

WaypointConcat ==
    /\ pc = "waypoint"
    /\ wi > MaxPairs
    /\ cand' = wcoords
    /\ provenance' = "waypoint-routed"
    /\ pc' = "validate"
    /\ UNCHANGED <<harness, net, batch, idx, tier, cause, qi, retries, tried, segv, wayv,
                   durable>>

\* Quality Validator gate on the candidate of the current tier; an accepted
\* candidate is cached (put overwrites the road's entry).
Validate ==
    /\ pc = "validate"
    /\ LET verdict == validate(cand, Bbox).verdict
       IN  /\ validated' = IF verdict = "pass" THEN validated \cup {cand} ELSE validated
           /\ cache' = IF ShouldCache(verdict)
                       THEN put(cache, batch[idx], cand, clock) ELSE cache
           /\ IF QualityGate(verdict)
              THEN /\ pc' = "metrics"
                   /\ UNCHANGED <<idx, tier, cause, qi, retries, cand, provenance,
                                  tried, segv, wayv, metricsIn, failures>>
              ELSE IF OnRejection(verdict) = "abandon"
                   THEN /\ failures' = failures \cup {Failure(verdict)}
                        /\ FinishRoad(FALSE)
                   ELSE Escalate(verdict)
    /\ UNCHANGED <<harness, net, batch, emitted>>

\* Metrics Engine input.
MetricsEngine ==
    /\ pc = "metrics"
    /\ metricsIn' = cand
    /\ pc' = "emit"
    /\ UNCHANGED <<harness, net, batch, idx, road, segv, wayv, cache, validated, emitted,
                   failures>>

\* Output record handed to the persistence collaborator.
EmitRecord ==
    /\ pc = "emit"
    /\ emitted' = emitted \cup
          {[pos |-> idx, road |-> batch[idx], geometry |-> cand, source |-> provenance]}
    /\ FinishRoad(TRUE)
    /\ UNCHANGED <<harness, net, batch, cache, validated, failures>>

Next ==
    \/ CacheGet
    \/ Sleep
    \/ SendRequest
    \/ \E kind \in FetchErrors : DirectFetchError(kind)
    \/ \E resp \in FetchPool : DirectFetchResponse(resp)
    \/ \E ok \in BOOLEAN : SegmentFetch(ok)
    \/ SegmentMerge
    \/ WaypointRoutingError
    \/ \E sub \in SubRoutes(wi) : WaypointSubRoute(sub)
    \/ WaypointConcat
    \/ Validate
    \/ MetricsEngine
    \/ EmitRecord

Spec == Init /\ [][Next]_vars

\* The pipeline is a sequential program that always takes its next step, and
\* every request returns or times out.
FairSpec == Spec /\ WF_vars(Next)

\* Quality requirements stated on the coordinates themselves: every point
\* inside the bounding box and at least 2.0 points per km.
PassesQuality(g) ==
    /\ \A i \in DOMAIN g :
          /\ Bbox.west <= Lon(g[i]) /\ Lon(g[i]) <= Bbox.east
          /\ Bbox.south <= Lat(g[i]) /\ Lat(g[i]) <= Bbox.north
    /\ Len(g) * GridPerKm >= 2 * calculate_total_distance(g)

SoftDensity(g) ==
    /\ \A i \in DOMAIN g : InBbox(g[i], Bbox)
    /\ Len(g) * GridPerKm >= calculate_total_distance(g)
    /\ Len(g) * GridPerKm < 2 * calculate_total_distance(g)

HardDensity(g) ==
    /\ \A i \in DOMAIN g : InBbox(g[i], Bbox)
    /\ Len(g) * GridPerKm < calculate_total_distance(g)

C12_Step ==
    \A r \in Roads :
        cache'[r] # cache[r]
        => /\ pc = "validate" /\ r = batch[idx]
           /\ PassesQuality(cand)
           /\ cache'[r] = [coords |-> cand, saved |-> clock, corrupt |-> FALSE]

TierRank(t) ==
    CASE t = "cache" -> 1 [] t = "query" -> 2 [] t = "segment" -> 3
      [] t = "waypoint" -> 4 [] OTHER -> 0

C4_OrderInv ==
    /\ \A j, k \in DOMAIN tried : j < k => TierRank(tried[j]) < TierRank(tried[k])
    /\ pc # "done" => /\ tried # <<>> /\ tried[1] = "cache"
                      /\ tried[Len(tried)] = tier

C4_Step ==
    /\ (pc \in {"metrics", "emit"}) => (tried' = tried \/ idx' # idx)
    /\ (idx' = idx /\ tried' # tried)
          => /\ Len(tried') = Len(tried) + 1
             /\ pc \notin {"metrics", "emit"}
             /\ cand' = NoGeometry
             /\ validated' = validated

C5_Step ==
    (idx' = idx /\ tried' # tried) => failures' = failures

C6_Step ==
    /\ (pc = "validate" /\ SoftDensity(cand) /\ tier # "waypoint")
          => /\ idx' = idx /\ failures' = failures
             /\ TierRank(tier') > TierRank(tier) /\ pc' = tier'
    /\ (pc = "validate" /\ HardDensity(cand))
          => /\ idx' = idx + 1
             /\ failures' = failures \cup
                   {[pos |-> idx, road |-> batch[idx], reason |-> "hard_fail", last |-> tier]}
             /\ emitted' = emitted

C13_Step ==
    (tier' = "segment" /\ tier # "segment")
    => /\ tier = "query" /\ idx' = idx
       /\ inflight = 1 /\ inflight' = 0
       /\ \/ outcome' \in {"GatewayTimeout", "RateLimited"} /\ retries = MaxRetries
          \/ outcome' = "Fragmented"

C13_DirectHit ==
    (provenance = "direct-query" /\ pc \in {"metrics", "emit"})
    => "segment" \notin Range(tried)

C14_Accounted ==
    pc = "segment" => /\ si - 1 = Len(allCoords) + segFailed
                      /\ si <= NUM_SEGMENTS + 1

C14_Step ==
    /\ (pc = "segment" /\ segFailed' > segFailed)
          => /\ outcome' = "Fragmented" /\ pc' = "segment"
             /\ si' = si + 1 /\ allCoords' = allCoords
    /\ (pc = "segment" /\ pc' # "segment")
          => /\ si = NUM_SEGMENTS + 1
             /\ segFailed > 0
                   => /\ pc' = "waypoint" /\ cause' = "partial"
                      /\ cand' = NoGeometry /\ idx' = idx

C15_NoDetour ==
    \A i \in DOMAIN wcoords :
        /\ Bbox.west <= Lon(wcoords[i]) /\ Lon(wcoords[i]) <= Bbox.east
        /\ Bbox.south <= Lat(wcoords[i]) /\ Lat(wcoords[i]) <= Bbox.north

C15_Step ==
    (wcoords' # wcoords /\ wcoords' # <<>>)
    => /\ pc = "waypoint" /\ outcome' = "route" /\ wi' = wi + 1
       /\ \E sub \in SubRoutes(wi) :
             /\ PassesQuality(sub)
             /\ wcoords' = IF wcoords = <<>> THEN sub ELSE wcoords \o Tail(sub)

\* C15: in the waypoint fallback the concatenated geometry grows only by a
\* sub-route that meets the quality requirements (bounds and density) on its
\* own; a sub-route that fails them never becomes part of the geometry.
C15_SubRoutesValidated == []C15_NoDetour /\ [][C15_Step]_vars

\* Every waypoint pair got a detailed sub-route and all were concatenated.
C15_Witness ==
    /\ pc = "waypoint" /\ wi = MaxPairs + 1
    /\ Len(wcoords) = 1 + 3 * MaxPairs
    /\ outcome = "route"

C16_Step ==
    (pc = "query" /\ inflight = 1 /\ inflight' = 0)
    => /\ outcome' \in {"RateLimited", "GatewayTimeout"}
             => \/ /\ retries < MaxRetries /\ retries' = retries + 1
                   /\ qi' = qi /\ pc' = "query" /\ idx' = idx
                \/ /\ retries = MaxRetries
                   /\ pc' = "segment" /\ tier' = "segment" /\ idx' = idx
       /\ outcome' \in {"NetworkError", "Malformed"}
             => \/ /\ qi < MaxQueries /\ qi' = qi + 1 /\ retries' = 0
                   /\ pc' = "query" /\ idx' = idx
                \/ /\ qi = MaxQueries /\ pc' # "query" /\ retries' = 0

C17_Step ==
    (inflight' > inflight)
    => /\ inflight = 0 /\ inflight' = 1
       /\ sinceLast >= MIN_DELAY_S /\ sinceLast' = 0

\* C17: at most one external API request is in flight at any time, and a
\* request is issued only when at least the minimum delay has passed since the
\* previous one was issued, whatever the candidate, retry, tier or road.
C17_OneRequestWithDelay == [](inflight <= 1) /\ [][C17_Step]_vars

\* A routing request of the second road is in flight, after direct queries
\* and segment fetches were made for it and requests were made for the first.
C17_Witness ==
    /\ inflight = 1 /\ sinceLast = 0
    /\ idx = 2 /\ pc = "waypoint" /\ wi = 2
    /\ tried = <<"cache", "query", "segment", "waypoint">>
    /\ (emitted # {} \/ failures # {})

C18_Bounded ==
    /\ retries <= MaxRetries /\ qi <= MaxQueries
    /\ si <= NUM_SEGMENTS + 1 /\ wi <= MaxPairs + 1
    /\ Len(tried) <= 4
    /\ \A j, k \in DOMAIN tried : j # k => tried[j] # tried[k]

C18_LastTierEnds ==
    (pc = "waypoint" /\ idx' = idx /\ pc' # "waypoint") => pc' = "validate"

\* C18: the processing of every road of the batch terminates: retries, query
\* candidates, sub-regions and waypoint pairs are bounded, no tier is attempted
\* twice for a road, and a failure of the last tier ends the road.
C18_RoadTerminates ==
    /\ []C18_Bounded
    /\ [][C18_LastTierEnds]_vars
    /\ \A i \in 1..BatchLen : (idx = i) ~> (idx > i)

\* The batch is finished and one of its roads failed in the last tier after
\* going through all of them.
C18_Witness ==
    /\ pc = "done" /\ idx = BatchLen + 1
    /\ \E f \in failures : f.reason = "exhausted" /\ f.last = "waypoint"

Accounted(i) ==
    \/ \E e \in emitted : e.pos = i /\ e.road = batch[i]
    \/ \E f \in failures : f.pos = i /\ f.road = batch[i]

C19_Step ==
    (failures' # failures)
    => /\ \E f \in failures' \ failures :
            failures' = failures \cup {f} /\ f.pos = idx /\ f.road = batch[idx]
       /\ emitted' = emitted /\ batch' = batch
       /\ idx' = idx + 1
       /\ idx < Len(batch) => pc' = "cache" /\ tier' = "cache"

C19_Progress ==
    /\ \A i \in 1..BatchLen : i < idx => Accounted(i)
    /\ pc = "done" => idx = BatchLen + 1

backend == <<vcand, vreport, rresp, rres, cachev, curvev, elevv, batch, idx, pc, road, segv,
             wayv, durable, net>>

notroads == <<feedbackv, mapv, loadv, debouncev>>

IdleBackend ==
    /\ IdleValidate /\ IdleResolve /\ IdleCache /\ IdleCurves /\ IdleElevation
    /\ IdlePipeline

\* fetchData up to its await: setLoading(true), setError(null), request sent
\* for the region the callback closed over.
StartFetch(r) ==
    /\ uloading' = TRUE /\ uerror' = "null"
    /\ fetches' = Append(fetches, [region |-> r, status |-> "pending"])

\* Mount of RoadList with no region filter: the fetch effect runs once.
InitRoads ==
    /\ uregion = "All" /\ uroads = NoRoads
    /\ uloading = TRUE /\ uerror = "null"
    /\ fetches = << [region |-> "All", status |-> "pending"] >>
    /\ IdleBackend /\ IdleFeedback /\ IdleMap /\ IdleLoad /\ IdleDebounce

\* The region filter changes: fetchData is rebuilt for the new region and the
\* fetch effect runs it; nothing is done about the fetches still pending.
ChangeRegion(r) ==
    /\ r # uregion
    /\ Len(fetches) < MaxFetches
    /\ uregion' = r
    /\ StartFetch(r)
    /\ UNCHANGED <<uroads, backend, notroads>>

\* The response of fetch k arrives and the rest of that fetchData call runs.
FetchSettles(k, result) ==
    /\ k \in DOMAIN fetches
    /\ fetches[k].status = "pending"
    /\ fetches' = [fetches EXCEPT ![k].status = result]
    /\ uroads' = RoadsAfter(fetches[k].region, result)
    /\ uerror' = ErrorAfter(result)
    /\ uloading' = FALSE
    /\ UNCHANGED <<uregion, backend, notroads>>

NextRoads ==
    \/ \E r \in Regions : ChangeRegion(r)
    \/ \E k \in 1..MaxFetches, result \in FetchOutcomes : FetchSettles(k, result)

SpecRoads == InitRoads /\ [][NextRoads]_vars

AllSettled == \A k \in DOMAIN fetches : fetches[k].status # "pending"

\* C25: once every fetch has settled, the roads held by useRoads are the
\* result of the fetch for the most recently selected region, whatever order
\* the responses arrived in.
C25_LatestRegionWins ==
    AllSettled
    => /\ fetches[Len(fetches)].region = uregion
       /\ uroads = RoadsAfter(uregion, fetches[Len(fetches)].status)

\* ------------------------------------------- ActionButtons specification
notfeedback == <<roadsv, mapv, loadv, debouncev>>

InitFeedback ==
    /\ feedback = NoFeedback /\ ftimers = {} /\ fclock = 0 /\ fshown = -1 /\ fcount = 0
    /\ IdleBackend /\ IdleRoads /\ IdleMap /\ IdleLoad /\ IdleDebounce

\* showFeedback(type, message): the message is set and a new timer is started;
\* the timers already pending are left running.
ShowFeedback(type) ==
    /\ fcount < MaxShows
    /\ feedback' = type
    /\ ftimers' = ftimers \cup {[id |-> fcount + 1, due |-> fclock + FEEDBACK_TIMEOUT_S]}
    /\ fshown' = fclock /\ fcount' = fcount + 1
    /\ UNCHANGED <<fclock, backend, notfeedback>>

\* A timer that is due runs its callback: setFeedback(null).
FeedbackTimerFires(n) ==
    /\ \E t \in ftimers :
          /\ t.id = n /\ t.due <= fclock
          /\ ftimers' = ftimers \ {t}
    /\ feedback' = NoFeedback
    /\ UNCHANGED <<fclock, fshown, fcount, backend, notfeedback>>

\* One second passes; timers that are due have run.
FeedbackTick ==
    /\ fclock < MaxTime
    /\ \A t \in ftimers : t.due > fclock
    /\ fclock' = fclock + 1
    /\ UNCHANGED <<feedback, ftimers, fshown, fcount, backend, notfeedback>>

NextFeedback ==
    \/ \E type \in FeedbackTypes : ShowFeedback(type)
    \/ \E n \in 1..MaxShows : FeedbackTimerFires(n)
    \/ FeedbackTick

SpecFeedback == InitFeedback /\ [][NextFeedback]_vars

\* C26: a feedback message stays visible for 3 seconds counted from the most
\* recent showFeedback call; the timer of an earlier message does not clear a
\* later message before the later one's 3 seconds have passed.
C26_VisibleThreeSeconds ==
    (fcount >= 1 /\ fclock - fshown < FEEDBACK_TIMEOUT_S) => feedback # NoFeedback

\* ------------------------------------------- RoadMap route specification
notmap == <<roadsv, feedbackv, loadv, debouncev>>

\* The map has loaded and no road is selected.
InitMap ==
    /\ mselected = NoRoad /\ msource = NoSource /\ mlayer = NoRoad
    /\ mmarkers = {} /\ mstart = 0 /\ mend = 0 /\ mserial = 0
    /\ animq = <<>> /\ mcount = 0
    /\ IdleBackend /\ IdleRoads /\ IdleFeedback /\ IdleLoad /\ IdleDebounce

\* The selectedRoad effect for a road that passes the checks: route source
\* with empty data, route layer, first step of animateLine (which writes the
\* first slice and starts the timer chain), start and end markers; when the
\* drawing throws, the catch block runs cleanupRoute.
DrawRoute(r, kept) ==
    LET rd == MapRoads[r]
        first == [exists |-> TRUE, owner |-> r, data |-> r,
                  upto |-> SliceLength(rd.points, 0)]
        start_marker == [kind |-> "start", road |-> r, serial |-> mserial + 1]
        end_marker == [kind |-> "end", road |-> r, serial |-> mserial + 2]
    IN  /\ animq' = Append(animq, [road |-> r, step |-> 1])
        /\ mserial' = mserial + 2
        /\ IF rd.throws
           THEN /\ msource' = NoSource /\ mlayer' = NoRoad
                /\ mmarkers' = MarkersRemoved(kept \cup {start_marker, end_marker},
                                              mserial + 1, mserial + 2)
                /\ mstart' = 0 /\ mend' = 0
           ELSE /\ msource' = first /\ mlayer' = r
                /\ mmarkers' = kept \cup {start_marker, end_marker}
                /\ mstart' = mserial + 1 /\ mend' = mserial + 2

\* selectedRoad changes to r (a road of the list, or null on Escape or close)
\* and the effect runs: cleanupRoute, then the checks, then the drawing.
SelectRoad(r) ==
    /\ r # mselected
    /\ mcount < MaxSelections
    /\ mselected' = r /\ mcount' = mcount + 1
    /\ LET kept == MarkersRemoved(mmarkers, mstart, mend)
       IN  IF r # NoRoad /\ validateRoadCoordinates(MapRoads[r]) /\ MapRoads[r].geometry
           THEN DrawRoute(r, kept)
           ELSE /\ msource' = NoSource /\ mlayer' = NoRoad
                /\ mmarkers' = kept /\ mstart' = 0 /\ mend' = 0
                /\ UNCHANGED <<mserial, animq>>
    /\ UNCHANGED <<backend, notmap>>

\* The oldest animation timer fires and animate runs for its road: past the
\* last step it returns; otherwise it writes its slice into the 'route'
\* source if there is one, and starts the next timer.
AnimateStep ==
    /\ animq # <<>>
    /\ LET a == Head(animq)
       IN  IF a.step >= steps
           THEN /\ animq' = Tail(animq)
                /\ UNCHANGED msource
           ELSE /\ animq' = Append(Tail(animq), [a EXCEPT !.step = @ + 1])
                /\ msource' = IF msource.exists
                              THEN [msource EXCEPT
                                      !.data = a.road,
                                      !.upto = SliceLength(MapRoads[a.road].points, a.step)]
                              ELSE msource
    /\ UNCHANGED <<mselected, mlayer, mmarkers, mstart, mend, mserial, mcount,
                   backend, notmap>>

NextMap ==
    \/ \E r \in DOMAIN MapRoads \cup {NoRoad} : SelectRoad(r)
    \/ AnimateStep

SpecMap == InitMap /\ [][NextMap]_vars

\* C27: the 'route' source never holds coordinates of a road other than the
\* one it was added for, and once all animation timers have fired it holds
\* the complete coordinate list of the road it shows.
C27_AnimationWritesOwnRoad ==
    msource.exists
    => /\ msource.data = msource.owner
       /\ animq = <<>> => msource.upto = MapRoads[msource.owner].points

Shown(r) ==
    /\ msource.exists /\ msource.owner = r /\ mlayer = r
    /\ Cardinality({m \in mmarkers : m.kind = "start"}) = 1
    /\ Cardinality({m \in mmarkers : m.kind = "end"}) = 1
    /\ \A m \in mmarkers : m.road = r /\ m.serial \in {mstart, mend}

NothingShown ==
    /\ ~msource.exists /\ mlayer = NoRoad /\ mmarkers = {}
    /\ mstart = 0 /\ mend = 0

\* C28: after any sequence of selections, deselections and failed draws the
\* map holds at most one route source and layer and at most one start and one
\* end marker, all of the currently selected road; with no road selected, or
\* a selected road that fails coordinate validation, nothing is shown.
C28_OneRouteOfSelectedRoad ==
    /\ Shown(mselected) \/ NothingShown
    /\ mselected = NoRoad => NothingShown
    /\ (mselected # NoRoad /\ ~(MapRoads[mselected].start_ok /\ MapRoads[mselected].end_ok))
          => NothingShown

\* Road B is shown after road A was shown and a road outside Portugal was
\* selected in between.
C28_Witness ==
    /\ mcount = 3 /\ mselected = "B" /\ Shown("B")
    /\ mserial = 4

\* ------------------------------------ RoadMap initialisation specification
notload == <<roadsv, feedbackv, mapv, debouncev>>

\* initializeMap as call number n at time now: states reset, existing map
\* removed, NO_TOKEN without a token, INIT_FAILED when the Map constructor
\* throws, otherwise a new map and a new load timer whose handle overwrites
\* the ref.
initializeMap(n, now, constructed) ==
    /\ mapLoaded' = FALSE
    /\ icount' = n /\ lastInit' = now
    /\ eventSince' = FALSE /\ loadFired' = FALSE
    /\ IF ~token
       THEN /\ error' = "NO_TOKEN" /\ mapref' = 0
            /\ UNCHANGED <<loadTimeoutRef, ltimers>>
       ELSE IF ~constructed
       THEN /\ error' = "INIT_FAILED" /\ mapref' = 0
            /\ UNCHANGED <<loadTimeoutRef, ltimers>>
       ELSE /\ error' = NoError /\ mapref' = n
            /\ loadTimeoutRef' = n
            /\ ltimers' = ltimers \cup {[id |-> n, due |-> now + LOAD_TIMEOUT_S]}

\* The component has mounted and its effect has called initializeMap.
InitLoad ==
    /\ token \in BOOLEAN /\ iclock = 0
    /\ mapLoaded = FALSE /\ icount = 1 /\ lastInit = 0
    /\ eventSince = FALSE /\ loadFired = FALSE
    /\ \/ /\ ~token /\ error = "NO_TOKEN" /\ mapref = 0
          /\ loadTimeoutRef = 0 /\ ltimers = {}
       \/ /\ token /\ error = "INIT_FAILED" /\ mapref = 0
          /\ loadTimeoutRef = 0 /\ ltimers = {}
       \/ /\ token /\ error = NoError /\ mapref = 1
          /\ loadTimeoutRef = 1
          /\ ltimers = {[id |-> 1, due |-> LOAD_TIMEOUT_S]}
    /\ IdleBackend /\ IdleRoads /\ IdleFeedback /\ IdleMap /\ IdleDebounce

\* The 'load' event of the current map.
MapLoad ==
    /\ mapref # 0 /\ ~loadFired
    /\ ltimers' = TimersCleared(ltimers, loadTimeoutRef)
    /\ mapLoaded' = TRUE /\ error' = NoError
    /\ loadFired' = TRUE /\ eventSince' = TRUE
    /\ UNCHANGED <<token, iclock, icount, lastInit, mapref, loadTimeoutRef,
                   backend, notload>>

\* An 'error' event of the current map.
MapError(kind) ==
    /\ mapref # 0
    /\ ltimers' = TimersCleared(ltimers, loadTimeoutRef)
    /\ error' = kind
    /\ eventSince' = TRUE
    /\ UNCHANGED <<token, iclock, icount, lastInit, mapref, loadTimeoutRef,
                   mapLoaded, loadFired, backend, notload>>

\* The load timer started by initialisation n runs.
LoadTimerFires(n) ==
    /\ \E t \in ltimers :
          /\ t.id = n /\ t.due <= iclock
          /\ ltimers' = ltimers \ {t}
    /\ error' = "TIMEOUT"
    /\ UNCHANGED <<token, iclock, icount, lastInit, mapref, loadTimeoutRef,
                   mapLoaded, loadFired, eventSince, backend, notload>>

\* handleRetry: the Try Again button of the error display.
Retry(constructed) ==
    /\ error # NoError
    /\ icount < MaxInits
    /\ initializeMap(icount + 1, iclock, constructed)
    /\ UNCHANGED <<token, iclock, backend, notload>>

\* A second passes; a timer that is due runs first.
MapTick ==
    /\ iclock < MaxMapTime
    /\ \A t \in ltimers : t.due > iclock
    /\ iclock' = iclock + 1
    /\ UNCHANGED <<token, icount, lastInit, mapref, loadTimeoutRef, ltimers,
                   mapLoaded, error, loadFired, eventSince, backend, notload>>

NextLoad ==
    \/ MapLoad
    \/ \E kind \in MapErrorKinds : MapError(kind)
    \/ \E n \in 1..MaxInits : LoadTimerFires(n)
    \/ \E constructed \in BOOLEAN : Retry(constructed)
    \/ MapTick

SpecLoad == InitLoad /\ [][NextLoad]_vars

TimeoutJustified ==
    error = "TIMEOUT"
    => /\ ~eventSince
       /\ iclock - lastInit >= LOAD_TIMEOUT_S

LoadedStays ==
    loadFired => /\ mapLoaded
                 /\ error # "TIMEOUT"
                 /\ \A t \in ltimers : t.id > icount

LoadHandler ==
    (loadFired' /\ ~loadFired) => (mapLoaded' /\ error' = NoError)

\* C29: the error is 'TIMEOUT' only when neither 'load' nor 'error' fired
\* within 10 s of the latest initializeMap; the 'load' handler leaves
\* mapLoaded true and error null, and after it no timer of that or an earlier
\* initialisation, a retried one included, sets 'TIMEOUT'.
C29_TimeoutOnlyWithoutEvent ==
    /\ [](TimeoutJustified /\ LoadedStays)
    /\ [][LoadHandler]_vars

\* The map loaded after a retry, and the ten seconds of both
\* initialisations have passed.
C29_Witness ==
    /\ icount = 2 /\ loadFired /\ mapLoaded /\ error = NoError
    /\ lastInit > 0 /\ iclock >= lastInit + LOAD_TIMEOUT_S

\* -------------------------------------------- useDebouncedValue specification
notdebounce == <<roadsv, feedbackv, mapv, loadv>>

\* The hook has mounted with an empty search box: useState(value), and the
\* effect has started its first timeout.
InitDebounce ==
    /\ value = "" /\ debouncedValue = ""
    /\ timeoutId = 1 /\ timeouts = {[id |-> 1, value |-> "", due |-> delay]}
    /\ dclock = 0 /\ changedAt = 0 /\ dchanges = 0
    /\ IdleBackend /\ IdleRoads /\ IdleFeedback /\ IdleMap /\ IdleLoad

\* The input changes to v: the cleanup of the previous effect run clears its
\* timeout and the effect starts a new one for v.
SetValue(v) ==
    /\ v # value
    /\ dchanges < MaxChanges
    /\ dclock + delay <= MaxDebounceTime
    /\ value' = v /\ changedAt' = dclock /\ dchanges' = dchanges + 1
    /\ timeoutId' = timeoutId + 1
    /\ timeouts' = TimeoutsCleared(timeouts, timeoutId)
                      \cup {[id |-> timeoutId + 1, value |-> v, due |-> dclock + delay]}
    /\ UNCHANGED <<debouncedValue, dclock, backend, notdebounce>>

\* The timeout with handle n runs: setDebouncedValue(value) with the value of
\* the effect run that started it.
DebounceTimeout(n) ==
    /\ \E t \in timeouts :
          /\ t.id = n /\ t.due <= dclock
          /\ debouncedValue' = t.value
          /\ timeouts' = timeouts \ {t}
    /\ UNCHANGED <<value, timeoutId, dclock, changedAt, dchanges, backend, notdebounce>>

\* 100 ms pass; a timeout that is due runs first.
DebounceTick ==
    /\ dclock < MaxDebounceTime
    /\ \A t \in timeouts : t.due > dclock
    /\ dclock' = dclock + 1
    /\ UNCHANGED <<value, debouncedValue, timeoutId, timeouts, changedAt, dchanges,
                   backend, notdebounce>>

NextDebounce ==
    \/ \E v \in Queries : SetValue(v)
    \/ \E n \in 1..(MaxChanges + 1) : DebounceTimeout(n)
    \/ DebounceTick

SpecDebounce == InitDebounce /\ [][NextDebounce]_vars

\* Timeouts run when they are due and time goes on.
FairSpecDebounce ==
    /\ SpecDebounce
    /\ WF_vars(\E n \in 1..(MaxChanges + 1) : DebounceTimeout(n))
    /\ WF_vars(DebounceTick)

DebouncedChange ==
    debouncedValue' # debouncedValue
    => /\ debouncedValue' = value'
       /\ value' = value
       /\ dclock - changedAt >= delay

\* C30: the returned value changes to v only after the input has held v for
\* delay without interruption, so it is not updated while the input changes
\* faster than that; and when the input stays at a value for good the
\* returned value eventually equals it.
C30_DebouncedFollowsInput ==
    /\ [][DebouncedChange]_vars
    /\ \A v \in Queries : <>[](value = v) => <>[](debouncedValue = v)

\* The box was changed twice within the delay and the returned value went
\* from the empty text to the final text without taking the one in between.
C30_Witness ==
    /\ dchanges = 2 /\ changedAt = 1 /\ value = "N2" /\ debouncedValue = "N2"
    /\ dclock = changedAt + delay

====
